---------------------------- MODULE Spec2Model ----------------------------
(***************************************************************************)
(* OPNManager: the firewall rules page (routes/rules/+page.svelte) and the *)
(* topology page (routes/topology/+page.svelte) as state machines.         *)
(*                                                                         *)
(* JavaScript runs one task at a time, so the code between two `await`s    *)
(* is one atomic action.  Every `await invoke(...)` is a suspension point: *)
(* the request is issued by the action that reaches it and the response    *)
(* (a value or a rejection, chosen by the backend) is delivered by a later *)
(* action.  Rule objects are objects with identity: toggleRule keeps the   *)
(* object it was called with, whether or not the list still holds it.      *)
(***************************************************************************)
EXTENDS Integers, Sequences, FiniteSets, TLC

(***************************************************************************)
(* Bounds of the model.                                                    *)
(***************************************************************************)
MaxRows == 1          \* longest list get_firewall_rules returns
MaxToggles == 2       \* toggleRule calls in flight at once
MaxFetches == 1       \* stand-alone fetchRules calls in flight at once
MaxUpdates == 1       \* timer-started updateRules calls in flight at once
MaxTimers == 1        \* interval timers alive at once
MaxPending == 2       \* timeout timers of fetchData set and not yet expired
MaxLogouts == 2       \* logout calls in flight at once
NumWidgets == 2       \* entries of DEFAULT_WIDGETS the model keeps
MaxKeys == 2          \* longest list of keys updatePositions is called with
MaxIfaces == 2        \* interfaces the topology map is given
MaxDevices == 2       \* devices the topology map is given
MaxInitTimers == 2    \* initializeVisualization timers set and not yet expired
MaxD3Devices == 1     \* devices the D3 version of the map is given
loadTimeout == 2      \* let loadTimeout, in ticks of the clock

Uuids == {"u1", "u2"}
Enabled == {"0", "1"}

(***************************************************************************)
(* Strings that are inspected character by character are sequences of      *)
(* one-character strings.                                                  *)
(***************************************************************************)
OK == <<"O", "K">>
Whitespace == {" ", "\n", "\t"}
Statuses == { OK, <<" ", "O", "K", "\n">>, <<"O", " ", "K">>, <<"o", "k">>, <<>> }

RECURSIVE TrimStart(_)
TrimStart(s) ==
  IF s # <<>> /\ Head(s) \in Whitespace THEN TrimStart(Tail(s)) ELSE s

RECURSIVE TrimEnd(_)
TrimEnd(s) ==
  IF s # <<>> /\ s[Len(s)] \in Whitespace
  THEN TrimEnd(SubSeq(s, 1, Len(s) - 1))
  ELSE s

\* String.prototype.trim
Trim(s) == TrimEnd(TrimStart(s))


(***************************************************************************)
(* State of the rules page.                                                *)
(***************************************************************************)
VARIABLES
  rules,                  \* let rules: the rule objects, in order
  isLoading,              \* let isLoading
  error,                  \* let error (Null or a message)
  refreshInterval,        \* let refreshInterval (0: undefined, else a timer id)
  activeTimers,           \* interval timers set and not cleared
  showDeleteConfirmation, \* let showDeleteConfirmation
  selectedRule,           \* let selectedRule (Null or the uuid of the rule)
  mounted,                \* onMount has run and onDestroy has not
  destroyed,              \* onDestroy has run
  fetchThen,              \* fetchRules calls awaiting get_firewall_rules whose
                          \* completion starts the periodic refresh
  fetchPlain,             \* the other stand-alone fetchRules calls in flight
  updates,                \* timer-started updateRules calls in flight
  tg,                     \* the toggleRule calls: position, locals, call log
  dl,                     \* the deleteRule call: position, locals, call log
  gets                    \* the get_firewall_rules requests: which call issued
                          \* the latest one, whether its response has been
                          \* shown, whether an older one has replaced it

rulesVars ==
  << rules, isLoading, error, refreshInterval, activeTimers,
     showDeleteConfirmation, selectedRule, mounted, destroyed, fetchThen,
     fetchPlain, updates, tg, dl, gets >>

(***************************************************************************)
(* State of the topology page.                                             *)
(***************************************************************************)
VARIABLES
  interfaces,             \* let interfaces
  devices,                \* let devices
  topoIsLoading,          \* let isLoading of the topology page
  topoError,              \* let error of the topology page (Null or the cause)
  hasTimeout,             \* let hasTimeout
  selectedInterfaces,     \* let selectedInterfaces
  topoMounted,            \* onMount of the topology page has run
  timers,                 \* the timeout timers set and not yet expired, oldest
                          \* first; latest: set by the latest fetchData call;
                          \* left: the ticks until it is due
  fd                      \* the fetchData call: position and call log

topoVars ==
  << interfaces, devices, topoIsLoading, topoError, hasTimeout,
     selectedInterfaces, topoMounted, timers, fd >>

(***************************************************************************)
(* State of the authentication store (lib/stores/authStore.ts).            *)
(***************************************************************************)
VARIABLES
  isLoggedIn,             \* AuthState.isLoggedIn
  isConfigured,           \* AuthState.isConfigured
  lo                      \* the logout calls: position and call log

authVars == << isLoggedIn, isConfigured, lo >>

(***************************************************************************)
(* State of the dashboard store (dashboardStore.ts) and of the preference  *)
(* table its two commands read and write.                                  *)
(***************************************************************************)
VARIABLES
  widgets,                \* state.widgets
  isLoaded,               \* state.isLoaded
  isEditing,              \* state.isEditing
  prefsTable,             \* the rows of the backend's preference table
  ld,                     \* the loadPreferences call: position, then how
                          \* its await ended
  sv                      \* the savePreferences call: position and call log

dashVars == << widgets, isLoaded, isEditing, prefsTable, ld, sv >>

(***************************************************************************)
(* State of the TopologyMap component.  The repository holds two versions  *)
(* of it: one draws with D3, one with SvelteFlow.                          *)
(***************************************************************************)
VARIABLES
  d3Interfaces,           \* export let interfaces (D3 version)
  d3Devices,              \* export let devices (D3 version)
  d3Mounted,              \* the D3 version is created and mounted
  topologyData,           \* let topologyData
  isInitialized,          \* let isInitialized
  initTimers,             \* setTimeout(initializeVisualization, 50) pending
  resizeTimeout,          \* the timer of handleResize is pending
  flowInterfaces,         \* export let interfaces (SvelteFlow version)
  flowDevices,            \* export let devices (SvelteFlow version)
  flowMounted,            \* the SvelteFlow version is created and mounted
  nodes,                  \* const nodes = writable([])
  edges                   \* const edges = writable([])

d3Vars ==
  << d3Interfaces, d3Devices, d3Mounted, topologyData, isInitialized,
     initTimers, resizeTimeout >>

flowVars == << flowInterfaces, flowDevices, flowMounted, nodes, edges >>

mapVars == << d3Vars, flowVars >>

(***************************************************************************)
(* The node the topology map painted last: what it was given and the fill  *)
(* colour each copy of the colour functions returned for it.               *)
(***************************************************************************)
VARIABLES
  painted


vars == << rulesVars, topoVars, authVars, dashVars, mapVars, painted >>

\* What the actions of one part of the program leave alone.
otherThanRules == << topoVars, authVars, dashVars, mapVars, painted >>
otherThanTopo == << rulesVars, authVars, dashVars, mapVars, painted >>
otherThanAuth == << rulesVars, topoVars, dashVars, mapVars, painted >>
otherThanDash == << rulesVars, topoVars, authVars, mapVars, painted >>
otherThanD3 == << rulesVars, topoVars, authVars, dashVars, flowVars, painted >>
otherThanFlow == << rulesVars, topoVars, authVars, dashVars, d3Vars, painted >>
otherThanPaint == << rulesVars, topoVars, authVars, dashVars, mapVars >>

Null == "null"
Slots == 1..MaxToggles
TimerIds == 1..MaxTimers

\* interface FirewallRule, reduced to the fields the page's logic reads;
\* isToggling is optional: "absent" until toggleRule sets it.
NoObj == [uuid |-> "", enabled |-> "", isToggling |-> "absent"]

Rows == [uuid : Uuids, enabled : Enabled]

\* The lists get_firewall_rules can return: uuid is unique within a ruleset.
RowSeqs ==
  UNION { { r \in [1..n -> Rows] :
              \A i, j \in 1..n : i # j => r[i].uuid # r[j].uuid } :
          n \in 0..MaxRows }

\* What an awaited get_firewall_rules settles with.
GetResponses == [ok : {TRUE}, rows : RowSeqs] \cup {[ok |-> FALSE, rows |-> <<>>]}

Min(S) == CHOOSE x \in S : \A y \in S : x <= y

\* The objects of a response are new objects, without isToggling.
NewRules(rows) ==
  [i \in 1..Len(rows) |->
     [uuid |-> rows[i].uuid, enabled |-> rows[i].enabled, isToggling |-> "absent"]]

\* The enabled value the list shows for a uuid ("none": no such rule shown).
Shown(list, u) ==
  IF \E i \in 1..Len(list) : list[i].uuid = u
  THEN list[CHOOSE i \in 1..Len(list) : list[i].uuid = u].enabled
  ELSE "none"

\* The calls that await get_firewall_rules: fetchRules called on its own,
\* the updateRules of the timer, the updateRules of a toggleRule call, the
\* fetchRules of deleteRule.
GetsInFlight(ft, fp, up, t, d) ==
     (IF ft + fp > 0 THEN {<< "fetchRules", 0 >>} ELSE {})
  \cup (IF up > 0 THEN {<< "updateRules", 0 >>} ELSE {})
  \cup {<< "toggleRule", s >> : s \in {x \in Slots : t[x].pc = "update"}}
  \cup (IF d.pc = "fetch" THEN {<< "deleteRule", 0 >>} ELSE {})

\* watch: the order is recorded (it is where a claim reads it).
NoGets ==
  [watch |-> FALSE, latest |-> << "none", 0 >>, shown |-> FALSE, stale |-> FALSE]

\* The order of the requests and of their responses, as far as it decides
\* which snapshot the list shows: a request issued is the latest one; its
\* response is shown when it arrives; a response of an older request that
\* arrives after that and changes the list makes the list stale.  ok: the
\* response of this step is a list (not a rejection).
GetsAfter(ok) ==
  IF ~gets.watch THEN gets
  ELSE
    LET now == GetsInFlight(fetchThen, fetchPlain, updates, tg, dl)
        next == GetsInFlight(fetchThen', fetchPlain', updates', tg', dl')
    IN IF next \ now # {}
       THEN [gets EXCEPT !.latest = CHOOSE id \in next \ now : TRUE,
                         !.shown = FALSE, !.stale = FALSE]
       ELSE LET stale ==
                  IF ok /\ now # next
                  THEN IF gets.latest \in now \ next THEN FALSE
                       ELSE (gets.shown /\ rules' # rules) \/ gets.stale
                  ELSE gets.stale
                shown == gets.shown \/ (ok /\ gets.latest \in now \ next)
            IN IF next = {}
               THEN [NoGets EXCEPT !.watch = TRUE, !.stale = stale]
               ELSE [gets EXCEPT !.shown = shown, !.stale = stale]

\* What a step of the rules page does to the rest of the state.
RulesFrame(ok) ==
  /\ gets' = GetsAfter(ok)
  /\ UNCHANGED otherThanRules

\* The {#each rules} block is rendered in the last branch of the template.
ListRendered == ~destroyed /\ ~isLoading /\ error = Null /\ Len(rules) > 0

\* JSON.stringify(newRule) !== JSON.stringify(rules[index]): a row of a
\* response has no isToggling property.
JsonDiffers(row, obj) ==
  \/ obj.isToggling # "absent"
  \/ obj.uuid # row.uuid
  \/ obj.enabled # row.enabled

\* updateRules: hasChanges || newRules.length !== rules.length
UpdateReplaces(rows, list) ==
  \/ \E i \in 1..Len(rows) : i <= Len(list) /\ JsonDiffers(rows[i], list[i])
  \/ Len(rows) # Len(list)

\* updateRules from the response on: whether `rules` becomes the new objects
\* (a rejection is swallowed by its catch block).
UpdateRulesReplaces(resp, list) == resp.ok /\ UpdateReplaces(resp.rows, list)

\* The list is assigned whether or not the request failed.
FetchRulesReplacesAlways(resp, list) == TRUE

\* fetchRules from the response on: rules = response.rows unless it threw.
FetchRulesReplaces(resp, list) == resp.ok

\* fetchRules' catch block: error is assigned only when the request fails.
FetchRulesError(resp, err) ==
  IF resp.ok THEN err ELSE "An unexpected error occurred"

(***************************************************************************)
(* toggleRule.  Positions: "toggle" (awaiting toggle_firewall_rule),       *)
(* "apply" (awaiting apply_firewall_changes), "update" (awaiting the       *)
(* get_firewall_rules of updateRules), "done" (returned).                  *)
(* The parameter `rule` is the object rules[at] while at > 0; once the     *)
(* list has been replaced by new objects, at = 0 and the object, which     *)
(* only this call can still reach, is kept in obj.                         *)
(* The fields nToggle, nApply, nGet, changed, applied, status and caught   *)
(* log what the call did; the code does not read them.  The log of a       *)
(* returned call is kept until the next toggleRule or deleteRule step.     *)
(***************************************************************************)
TgIdle ==
  [pc |-> "idle", at |-> 0, obj |-> NoObj, originalStatus |-> "", uuid |-> "",
   nToggle |-> 0, nApply |-> 0, nGet |-> 0, changed |-> "none",
   applied |-> "none", status |-> <<>>, caught |-> FALSE]

DlIdle ==
  [pc |-> "idle", nDelete |-> 0, nApply |-> 0, nGet |-> 0,
   deleted |-> "none", applied |-> "none", status |-> <<>>,
   toast |-> "none", closed |-> FALSE]

\* The logs of the calls that returned earlier are dropped.
DropLogs(t, s) ==
  [x \in Slots |-> IF x # s /\ t[x].pc = "done" THEN TgIdle ELSE t[x]]

DropLog(d) == IF d.pc = "done" THEN DlIdle ELSE d

Running(t) == { s \in Slots : t[s].pc \notin {"idle", "done"} }

FreeSlots == Slots \ Running(tg)

\* `rules` is assigned new objects: the running calls keep the old ones.
Detach(t, list) ==
  [s \in Slots |->
     IF s \in Running(t) /\ t[s].at > 0
     THEN [t[s] EXCEPT !.at = 0, !.obj = list[t[s].at]]
     ELSE t[s]]

\* disabled={rule.isToggling}
ButtonDisabled(obj) == obj.isToggling = "true"

\* A toggleRule that applies whatever toggle_firewall_rule answered.
ApplyAlways(changed) == TRUE

\* if (toggleResponse.changed)
ApplyWanted(changed) == changed

\* A comparison of the status without trim().
StatusIsOkUntrimmed(status) == status = OK

\* applyResponse.status.trim() === "OK"
StatusIsOk(status) == Trim(status) = OK

\* A toggleRule that does not await toggle_firewall_rule before it calls
\* apply_firewall_changes.
ToggleStartApplying(s, i) ==
  /\ tg' = DropLogs([tg EXCEPT ![s] =
                        [TgIdle EXCEPT !.pc = "toggle",
                                       !.at = i,
                                       !.originalStatus = rules[i].enabled,
                                       !.uuid = rules[i].uuid,
                                       !.nToggle = 1,
                                       !.nApply = 1]], s)
  /\ rules' = [rules EXCEPT ![i].isToggling = "true"]

\* toggleRule up to its first await.
ToggleStart(s, i) ==
  /\ tg' = DropLogs([tg EXCEPT ![s] =
                        [TgIdle EXCEPT !.pc = "toggle",
                                       !.at = i,
                                       !.originalStatus = rules[i].enabled,
                                       !.uuid = rules[i].uuid,
                                       !.nToggle = 1]], s)
  /\ rules' = [rules EXCEPT ![i].isToggling = "true"]

\* on:click={() => toggleRule(rule)} on the button of the i-th rule shown.
ToggleClick(i) ==
  /\ ListRendered
  /\ i \in 1..Len(rules)
  /\ ~ButtonDisabled(rules[i])
  /\ FreeSlots # {}
  /\ ToggleStart(Min(FreeSlots), i)
  /\ dl' = DropLog(dl)
  /\ UNCHANGED << isLoading, error, refreshInterval, activeTimers,
                  showDeleteConfirmation, selectedRule, mounted, destroyed,
                  fetchThen, fetchPlain, updates >>
  /\ RulesFrame(FALSE)

\* The end of toggleRule: the catch block when the try block threw
\* (rule.enabled = originalStatus, error toast), then the finally block
\* (rule.isToggling = false), on the list and calls the try block left.
ToggleEnd(s, rec, threw, list, t) ==
  LET i == t[s].at
      restored == IF threw THEN t[s].originalStatus ELSE list[i].enabled
  IN /\ rules' = IF i > 0
                 THEN [list EXCEPT ![i].enabled = restored,
                                   ![i].isToggling = "false"]
                 ELSE list
     /\ tg' = DropLogs([t EXCEPT ![s] =
                          [rec EXCEPT !.pc = "done", !.at = 0, !.obj = NoObj,
                                      !.caught = threw]], s)

\* The call of apply_firewall_changes after a toggle that changed the rule.
ToggleApply(s, rec) ==
  /\ tg' = [tg EXCEPT ![s] = [rec EXCEPT !.pc = "apply", !.nApply = @ + 1]]
  /\ UNCHANGED rules

\* toggle_firewall_rule settles: it rejects, or answers {changed}.
ToggleResponse(s, ok, changed) ==
  /\ tg[s].pc = "toggle"
  /\ LET rec == [tg[s] EXCEPT !.changed =
                   IF ~ok THEN "throw" ELSE IF changed THEN "true" ELSE "false"]
     IN IF ~ok THEN ToggleEnd(s, rec, TRUE, rules, tg)
        ELSE IF ApplyWanted(changed) THEN ToggleApply(s, rec)
        ELSE ToggleEnd(s, rec, FALSE, rules, tg)
  /\ dl' = DropLog(dl)
  /\ UNCHANGED << isLoading, error, refreshInterval, activeTimers,
                  showDeleteConfirmation, selectedRule, mounted, destroyed,
                  fetchThen, fetchPlain, updates >>
  /\ RulesFrame(FALSE)

\* After apply answered OK: await updateRules(), up to its await.
ToggleCommit(s, rec) ==
  /\ tg' = [tg EXCEPT ![s] = [rec EXCEPT !.pc = "update", !.nGet = @ + 1]]
  /\ UNCHANGED rules

\* A toggleRule that calls apply_firewall_changes again when it failed.
ApplyFailedReissue(s, rec) == ToggleApply(s, rec)

\* The catch block after apply_firewall_changes rejected or answered a
\* status other than OK: no mutating command is issued again.
ApplyFailed(s, rec) == ToggleEnd(s, rec, TRUE, rules, tg)

\* apply_firewall_changes settles: it rejects, or answers {status}.
ApplyResponse(s, ok, status) ==
  /\ tg[s].pc = "apply"
  /\ LET rec == [tg[s] EXCEPT !.applied = IF ok THEN "ok" ELSE "throw",
                              !.status = IF ok THEN status ELSE <<>>]
     IN IF ok /\ StatusIsOk(status) THEN ToggleCommit(s, rec)
        ELSE ApplyFailed(s, rec)
  /\ dl' = DropLog(dl)
  /\ UNCHANGED << isLoading, error, refreshInterval, activeTimers,
                  showDeleteConfirmation, selectedRule, mounted, destroyed,
                  fetchThen, fetchPlain, updates >>
  /\ RulesFrame(FALSE)

\* The get_firewall_rules of toggleRule's updateRules settles; updateRules
\* swallows a rejection, so toggleRule goes on to its finally block.
ToggleUpdateResponse(s, resp) ==
  /\ tg[s].pc = "update"
  /\ IF UpdateRulesReplaces(resp, rules)
     THEN ToggleEnd(s, Detach(tg, rules)[s], FALSE, NewRules(resp.rows),
                    Detach(tg, rules))
     ELSE ToggleEnd(s, tg[s], FALSE, rules, tg)
  /\ dl' = DropLog(dl)
  /\ UNCHANGED << isLoading, error, refreshInterval, activeTimers,
                  showDeleteConfirmation, selectedRule, mounted, destroyed,
                  fetchThen, fetchPlain, updates >>
  /\ RulesFrame(resp.ok)

(***************************************************************************)
(* The periodic refresh, fetchRules and updateRules.                       *)
(***************************************************************************)
\* startPeriodicRefresh: refreshInterval = setInterval(updateRules, ...)
StartPeriodicRefresh ==
  LET id == Min(TimerIds \ activeTimers)
  IN /\ refreshInterval' = id
     /\ activeTimers' = activeTimers \cup {id}

\* stopPeriodicRefresh: if (refreshInterval) clearInterval(refreshInterval)
StopPeriodicRefresh ==
  /\ activeTimers' =
       IF refreshInterval # 0 THEN activeTimers \ {refreshInterval}
       ELSE activeTimers
  /\ UNCHANGED refreshInterval

\* fetchRules up to its await.
FetchRulesStart == isLoading' = TRUE /\ error' = Null

\* fetchRules from the response on; t: the toggleRule calls as the caller
\* leaves them.
FetchRulesEnd(resp, t) ==
  /\ IF FetchRulesReplaces(resp, rules)
     THEN rules' = NewRules(resp.rows) /\ tg' = Detach(t, rules)
     ELSE UNCHANGED rules /\ tg' = t
  /\ error' = FetchRulesError(resp, error)
  /\ isLoading' = FALSE

\* onMount: if ($authStore.isLoggedIn) { await fetchRules(); ... }
Mount(loggedIn) ==
  /\ ~mounted /\ ~destroyed
  /\ mounted' = TRUE
  /\ UNCHANGED destroyed
  /\ IF loggedIn
     THEN FetchRulesStart /\ fetchThen' = fetchThen + 1
     ELSE UNCHANGED << isLoading, error, fetchThen >>
  /\ UNCHANGED << rules, refreshInterval, activeTimers,
                  showDeleteConfirmation, selectedRule, fetchPlain, updates,
                  tg, dl >>
  /\ RulesFrame(FALSE)

\* onDestroy: stopPeriodicRefresh().  The page is gone: its handlers can no
\* longer be called; the calls in flight go on.
Destroy ==
  /\ mounted
  /\ mounted' = FALSE
  /\ destroyed' = TRUE
  /\ StopPeriodicRefresh
  /\ UNCHANGED << rules, isLoading, error, showDeleteConfirmation, selectedRule,
                  fetchThen, fetchPlain, updates, tg, dl >>
  /\ RulesFrame(FALSE)

\* manualRefresh, up to the await inside fetchRules.
ManualRefresh ==
  /\ mounted
  /\ fetchThen + fetchPlain < MaxFetches
  /\ Cardinality(activeTimers \ {refreshInterval}) + fetchThen < MaxTimers
  /\ StopPeriodicRefresh
  /\ FetchRulesStart
  /\ fetchThen' = fetchThen + 1
  /\ UNCHANGED << rules, showDeleteConfirmation, selectedRule, mounted,
                  destroyed,
                  fetchPlain, updates, tg, dl >>
  /\ RulesFrame(FALSE)

\* The fetchRules of onMount or manualRefresh completes; then
\* startPeriodicRefresh runs.
FetchThenResponse(resp) ==
  /\ fetchThen > 0
  /\ fetchThen' = fetchThen - 1
  /\ FetchRulesEnd(resp, tg)
  /\ StartPeriodicRefresh
  /\ UNCHANGED << showDeleteConfirmation, selectedRule, mounted, destroyed,
                  fetchPlain,
                  updates, dl >>
  /\ RulesFrame(resp.ok)

\* handleRuleAdded: the add-rule modal dispatched `refresh`.
HandleRuleAdded ==
  /\ mounted
  /\ fetchThen + fetchPlain < MaxFetches
  /\ FetchRulesStart
  /\ fetchPlain' = fetchPlain + 1
  /\ UNCHANGED << rules, refreshInterval, activeTimers,
                  showDeleteConfirmation, selectedRule, mounted, destroyed,
                  fetchThen,                   updates, tg, dl >>
  /\ RulesFrame(FALSE)

\* handleRuleEdited: the edit-rule modal dispatched `refresh`.
HandleRuleEdited ==
  /\ mounted
  /\ fetchThen + fetchPlain < MaxFetches
  /\ FetchRulesStart
  /\ fetchPlain' = fetchPlain + 1
  /\ UNCHANGED << rules, refreshInterval, activeTimers,
                  showDeleteConfirmation, selectedRule, mounted, destroyed,
                  fetchThen,                   updates, tg, dl >>
  /\ RulesFrame(FALSE)

\* The fetchRules of handleRuleAdded or handleRuleEdited completes.
FetchPlainResponse(resp) ==
  /\ fetchPlain > 0
  /\ fetchPlain' = fetchPlain - 1
  /\ FetchRulesEnd(resp, tg)
  /\ UNCHANGED << refreshInterval, activeTimers, showDeleteConfirmation,
                  selectedRule, mounted, destroyed, fetchThen, updates, dl >>
  /\ RulesFrame(resp.ok)

\* An interval timer fires: updateRules up to its await.
PeriodicTick ==
  /\ activeTimers # {}
  /\ updates < MaxUpdates
  /\ updates' = updates + 1
  /\ UNCHANGED << rules, isLoading, error, refreshInterval, activeTimers,
                  showDeleteConfirmation, selectedRule, mounted, destroyed,
                  fetchThen,                   fetchPlain, tg, dl >>
  /\ RulesFrame(FALSE)

\* A timer-started updateRules from the response on.
UpdateResponse(resp) ==
  /\ updates > 0
  /\ updates' = updates - 1
  /\ IF UpdateRulesReplaces(resp, rules)
     THEN rules' = NewRules(resp.rows) /\ tg' = Detach(tg, rules)
     ELSE UNCHANGED << rules, tg >>
  /\ UNCHANGED << isLoading, error, refreshInterval, activeTimers,
                  showDeleteConfirmation, selectedRule, mounted, destroyed,
                  fetchThen,                   fetchPlain, dl >>
  /\ RulesFrame(resp.ok)

(***************************************************************************)
(* deleteRule.  Positions: "delete" (awaiting delete_firewall_rule),       *)
(* "apply" (awaiting apply_firewall_changes), "fetch" (awaiting the        *)
(* get_firewall_rules of fetchRules), "done".  nDelete, nApply, nGet,      *)
(* deleted, applied, status, toast and closed log what the call did; the   *)
(* uuid sent with delete_firewall_rule is not used again and is not kept.  *)
(***************************************************************************)
\* openDeleteConfirmation(rule) from the delete button of the i-th rule.
OpenDeleteConfirmation(i) ==
  /\ ListRendered
  /\ i \in 1..Len(rules)
  /\ selectedRule' = rules[i].uuid
  /\ showDeleteConfirmation' = TRUE
  /\ UNCHANGED << rules, isLoading, error, refreshInterval, activeTimers,
                  mounted, destroyed, fetchThen, fetchPlain, updates, tg, dl >>
  /\ RulesFrame(FALSE)

\* closeDeleteConfirmation from the Cancel button of the dialog.
CloseDeleteConfirmation ==
  /\ ~destroyed
  /\ showDeleteConfirmation /\ selectedRule # Null
  /\ showDeleteConfirmation' = FALSE
  /\ selectedRule' = Null
  /\ UNCHANGED << rules, isLoading, error, refreshInterval, activeTimers,
                  mounted, destroyed, fetchThen, fetchPlain, updates, tg, dl >>
  /\ RulesFrame(FALSE)

\* deleteRule from the Delete button of the dialog, up to its first await.
DeleteClick ==
  /\ ~destroyed
  /\ showDeleteConfirmation /\ selectedRule # Null
  /\ dl.pc \in {"idle", "done"}
  /\ dl' = [DlIdle EXCEPT !.pc = "delete", !.nDelete = 1]
  /\ tg' = DropLogs(tg, 0)
  /\ UNCHANGED << rules, isLoading, error, refreshInterval, activeTimers,
                  showDeleteConfirmation, selectedRule, mounted, destroyed,
                  fetchThen, fetchPlain, updates >>
  /\ RulesFrame(FALSE)

\* deleteRule's catch block.
DeleteFail(rec) == dl' = [rec EXCEPT !.pc = "done", !.toast = "error"]

\* The call of apply_firewall_changes after delete_firewall_rule resolved.
DeleteApply(rec) == dl' = [rec EXCEPT !.pc = "apply", !.nApply = @ + 1]

\* delete_firewall_rule settles.
DeleteResponse(ok) ==
  /\ dl.pc = "delete"
  /\ LET rec == [dl EXCEPT !.deleted = IF ok THEN "ok" ELSE "throw"]
     IN IF ok THEN DeleteApply(rec) ELSE DeleteFail(rec)
  /\ tg' = DropLogs(tg, 0)
  /\ UNCHANGED << rules, isLoading, error, refreshInterval, activeTimers,
                  showDeleteConfirmation, selectedRule, mounted, destroyed,
                  fetchThen, fetchPlain, updates >>
  /\ RulesFrame(FALSE)

\* await invoke("apply_firewall_changes") in deleteRule: the value it
\* resolves with is not read.
DeleteApplied(ok, status) == ok

\* apply_firewall_changes settles in deleteRule; on success fetchRules runs
\* up to its await.
DeleteApplyResponse(ok, status) ==
  /\ dl.pc = "apply"
  /\ LET rec == [dl EXCEPT !.applied = IF ok THEN "ok" ELSE "throw",
                           !.status = IF ok THEN status ELSE <<>>]
     IN IF DeleteApplied(ok, status)
        THEN /\ dl' = [rec EXCEPT !.pc = "fetch", !.nGet = @ + 1]
             /\ FetchRulesStart
        ELSE /\ DeleteFail(rec)
             /\ UNCHANGED << isLoading, error >>
  /\ tg' = DropLogs(tg, 0)
  /\ UNCHANGED << rules, refreshInterval, activeTimers,
                  showDeleteConfirmation, selectedRule, mounted, destroyed,
                  fetchThen, fetchPlain, updates >>
  /\ RulesFrame(FALSE)

\* The fetchRules of deleteRule completes (it never throws); then the
\* success toast and closeDeleteConfirmation.
DeleteFetchResponse(resp) ==
  /\ dl.pc = "fetch"
  /\ FetchRulesEnd(resp, DropLogs(tg, 0))
  /\ dl' = [dl EXCEPT !.pc = "done", !.toast = "success", !.closed = TRUE]
  /\ showDeleteConfirmation' = FALSE
  /\ selectedRule' = Null
  /\ UNCHANGED << refreshInterval, activeTimers, mounted, destroyed, fetchThen,
                  fetchPlain, updates >>
  /\ RulesFrame(resp.ok)

(***************************************************************************)
(* The topology page: fetchData.  Positions: "ifaces" (awaiting the race   *)
(* of get_interfaces against the timeout), "devices" (awaiting the race of *)
(* get_combined_devices against the same timeout), "retryIfaces" and       *)
(* "retryDevices" (awaiting the requests of the retry), "done" (returned). *)
(* logNetworkTopologyEvent only logs, so awaiting it lets no timer and no  *)
(* response in.  nIfaces, nDevices, retries, firstFailure, retryFailure,   *)
(* warned and toast log what the call did, devicesWaited the ticks the      *)
(* call has waited for get_combined_devices of the first attempt, loaded   *)
(* that an earlier call or this one has ended in success; the code does    *)
(* not read them.                                                          *)
(***************************************************************************)
ErrorKinds == {"connection", "auth", "server", "parse"}

\* The answers of get_interfaces and get_combined_devices.
IfaceLists ==
  { <<>>, << [device |-> "igb0"] >>, << [device |-> "lo0"], [device |-> "igb0"] >>,
    << [device |-> "igb0"], [device |-> "igb1"] >> }

\* The device ids of the rows the interface dropdown can show.
IfaceNames == {"igb0", "igb1"}

DeviceLists == { <<>>, << [mac |-> "aa:bb", intf |-> "igb0"] >> }

FdIdle ==
  [pc |-> "idle", nIfaces |-> 0, nDevices |-> 0, retries |-> 0,
   firstFailure |-> "none", retryFailure |-> "none", warned |-> FALSE,
   toast |-> "none", devicesWaited |-> 0, loaded |-> FALSE]

\* getActiveInterfaces().map(iface => iface.device)
ActiveDevices(ifs) ==
  LET active == SelectSeq(ifs, LAMBDA x : x.device # "lo0" /\ x.device # "pfsync0")
  IN [i \in 1..Len(active) |-> active[i].device]

\* if (interfaces.length > 0) { if (selectedInterfaces.length === 0) ... }
SelectIfLoaded(ifs, sel) ==
  IF Len(ifs) > 0 /\ Len(sel) = 0 THEN ActiveDevices(ifs) ELSE sel

\* "Initialize selected interfaces if this is the first load"
SelectFirstLoad(ifs, sel) == IF Len(sel) = 0 THEN ActiveDevices(ifs) ELSE sel

\* fetchData up to its first await on the backend: the flags are reset, the
\* timeout timer is set and get_interfaces is requested.
FetchDataStart ==
  /\ topoIsLoading' = TRUE
  /\ topoError' = Null
  /\ hasTimeout' = FALSE
  /\ timers' = Append([i \in DOMAIN timers |-> [timers[i] EXCEPT !.latest = FALSE]],
                       [latest |-> TRUE, left |-> loadTimeout])
  /\ fd' = [FdIdle EXCEPT !.pc = "ifaces", !.nIfaces = 1, !.loaded = fd.loaded]
  /\ UNCHANGED << interfaces, devices, selectedInterfaces >>

\* onMount: await fetchData()
TopoMount ==
  /\ ~topoMounted
  /\ topoMounted' = TRUE
  /\ FetchDataStart
  /\ UNCHANGED otherThanTopo

\* The Refresh button: on:click={fetchData} disabled={isLoading}
RefreshClick ==
  /\ topoMounted
  /\ ~topoIsLoading
  /\ Len(timers) < MaxPending
  /\ FetchDataStart
  /\ UNCHANGED << topoMounted, otherThanTopo >>

\* The Retry button of the error panel: on:click={fetchData}
RetryClick ==
  /\ topoMounted
  /\ ~topoIsLoading /\ topoError # Null
  /\ Len(timers) < MaxPending
  /\ FetchDataStart
  /\ UNCHANGED << topoMounted, otherThanTopo >>

\* The inner catch (err) does not look at err before it retries.
RetryWanted(kind) == TRUE

\* The outer catch and the finally block: the terminal error; timedOut is
\* hasTimeout as the catch block reads it.
Surface(rec, kind, timedOut) ==
  /\ topoError' = kind
  /\ topoIsLoading' = FALSE
  /\ fd' = [rec EXCEPT !.pc = "done",
                       !.toast = IF timedOut THEN "timeout" ELSE "failed"]

\* The retry block up to its first await: get_interfaces is requested again,
\* not raced against any timer.
RetryStart(rec) ==
  /\ fd' = [rec EXCEPT !.pc = "retryIfaces", !.nIfaces = @ + 1,
                       !.retries = @ + 1, !.warned = TRUE]
  /\ UNCHANGED << topoError, topoIsLoading >>

\* The inner try block threw `kind`.
FirstAttemptFailed(kind, timedOut) ==
  LET rec == [fd EXCEPT !.firstFailure = kind]
  IN IF RetryWanted(kind) THEN RetryStart(rec) ELSE Surface(rec, kind, timedOut)

\* A retry that is retried when it fails.
RetryFailedRetries(kind) == RetryStart([fd EXCEPT !.retryFailure = kind])

\* A catch block of the retry: the retry threw `kind`, which is re-thrown to
\* the outer catch.
RetryFailed(kind) ==
  Surface([fd EXCEPT !.retryFailure = kind], kind, hasTimeout)

\* The end of the try block on success, then the finally block.
FetchDataSucceeded(ifs) ==
  /\ selectedInterfaces' = SelectFirstLoad(ifs, selectedInterfaces)
  /\ topoIsLoading' = FALSE
  /\ fd' = [fd EXCEPT !.pc = "done", !.loaded = TRUE]
  /\ UNCHANGED topoError

\* Time passes: every timer set is one tick nearer to being due, and a
\* get_combined_devices request awaited has been waited for one tick more.
Tick ==
  /\ \/ \E i \in DOMAIN timers : timers[i].left > 0
     \/ fd.pc = "devices" /\ fd.devicesWaited < loadTimeout
  /\ timers' = [i \in DOMAIN timers |->
                  [timers[i] EXCEPT !.left = IF @ > 0 THEN @ - 1 ELSE 0]]
  /\ fd' = [fd EXCEPT !.devicesWaited =
                IF fd.pc = "devices" /\ @ < loadTimeout THEN @ + 1 ELSE @]
  /\ UNCHANGED << interfaces, devices, topoIsLoading, topoError, hasTimeout,
                  selectedInterfaces, topoMounted, otherThanTopo >>

\* A timeout timer that is due expires: hasTimeout = true and its promise
\* rejects, which a race of the call that set it is still waiting for or not.
TimerFire ==
  /\ timers # <<>>
  /\ Head(timers).left = 0
  /\ timers' = Tail(timers)
  /\ hasTimeout' = TRUE
  /\ IF Head(timers).latest /\ fd.pc \in {"ifaces", "devices"}
     THEN FirstAttemptFailed("timeout", TRUE)
     ELSE UNCHANGED << fd, topoError, topoIsLoading >>
  /\ UNCHANGED << interfaces, devices, selectedInterfaces, topoMounted,
                  otherThanTopo >>

\* get_interfaces of the first attempt settles before the timeout.
IfacesResponse(ok, ifs, kind) ==
  /\ fd.pc = "ifaces"
  /\ IF ok
     THEN /\ interfaces' = ifs
          /\ selectedInterfaces' = SelectIfLoaded(ifs, selectedInterfaces)
          /\ fd' = [fd EXCEPT !.pc = "devices", !.nDevices = @ + 1]
          /\ UNCHANGED << topoError, topoIsLoading >>
     ELSE /\ FirstAttemptFailed(kind, hasTimeout)
          /\ UNCHANGED << interfaces, selectedInterfaces >>
  /\ UNCHANGED << devices, hasTimeout, topoMounted, timers, otherThanTopo >>

\* get_combined_devices of the first attempt settles before the timeout.
DevicesResponse(ok, devs, kind) ==
  /\ fd.pc = "devices"
  /\ IF ok
     THEN /\ devices' = devs
          /\ FetchDataSucceeded(interfaces)
     ELSE /\ FirstAttemptFailed(kind, hasTimeout)
          /\ UNCHANGED << devices, selectedInterfaces >>
  /\ UNCHANGED << interfaces, hasTimeout, topoMounted, timers, otherThanTopo >>

\* get_interfaces of the retry settles.
RetryIfacesResponse(ok, ifs, kind) ==
  /\ fd.pc = "retryIfaces"
  /\ IF ok
     THEN /\ interfaces' = ifs
          /\ selectedInterfaces' = SelectIfLoaded(ifs, selectedInterfaces)
          /\ fd' = [fd EXCEPT !.pc = "retryDevices", !.nDevices = @ + 1]
          /\ UNCHANGED << topoError, topoIsLoading >>
     ELSE /\ RetryFailed(kind)
          /\ UNCHANGED << interfaces, selectedInterfaces >>
  /\ UNCHANGED << devices, hasTimeout, topoMounted, timers, otherThanTopo >>

\* get_combined_devices of the retry settles.
RetryDevicesResponse(ok, devs, kind) ==
  /\ fd.pc = "retryDevices"
  /\ IF ok
     THEN /\ devices' = devs
          /\ FetchDataSucceeded(interfaces)
     ELSE /\ RetryFailed(kind)
          /\ UNCHANGED << devices, selectedInterfaces >>
  /\ UNCHANGED << interfaces, hasTimeout, topoMounted, timers, otherThanTopo >>

\* toggleInterface(ifaceName)
ToggledSelection(sel, ifaceName) ==
  IF \E i \in 1..Len(sel) : sel[i] = ifaceName
  THEN SelectSeq(sel, LAMBDA name : name # ifaceName)
  ELSE Append(sel, ifaceName)

\* toggleAllInterfaces
ToggledAll(ifs, sel) ==
  IF Len(sel) = Len(ActiveDevices(ifs)) THEN <<>> ELSE ActiveDevices(ifs)

\* A row of the interface dropdown is clicked; the rows are the active
\* interfaces.
ToggleInterface(ifaceName) ==
  /\ topoMounted
  /\ \E i \in 1..Len(ActiveDevices(interfaces)) : ActiveDevices(interfaces)[i] = ifaceName
  /\ selectedInterfaces' = ToggledSelection(selectedInterfaces, ifaceName)
  /\ UNCHANGED << interfaces, devices, topoIsLoading, topoError, hasTimeout,
                  topoMounted, timers, fd, otherThanTopo >>

\* The select-all row of the interface dropdown is clicked.
ToggleAllInterfaces ==
  /\ topoMounted
  /\ selectedInterfaces' = ToggledAll(interfaces, selectedInterfaces)
  /\ UNCHANGED << interfaces, devices, topoIsLoading, topoError, hasTimeout,
                  topoMounted, timers, fd, otherThanTopo >>

TopoInit ==
  /\ interfaces = <<>>
  /\ devices = <<>>
  /\ topoIsLoading = TRUE
  /\ topoError = Null
  /\ hasTimeout = FALSE
  /\ selectedInterfaces = <<>>
  /\ topoMounted = FALSE
  /\ timers = <<>>
  /\ fd = FdIdle

TopoNext ==
  \/ TopoMount
  \/ RefreshClick
  \/ RetryClick
  \/ \E ifaceName \in IfaceNames : ToggleInterface(ifaceName)
  \/ ToggleAllInterfaces
  \/ Tick
  \/ TimerFire
  \/ \E ifs \in IfaceLists : IfacesResponse(TRUE, ifs, "none")
  \/ \E kind \in ErrorKinds : IfacesResponse(FALSE, <<>>, kind)
  \/ \E devs \in DeviceLists : DevicesResponse(TRUE, devs, "none")
  \/ \E kind \in ErrorKinds : DevicesResponse(FALSE, <<>>, kind)
  \/ \E ifs \in IfaceLists : RetryIfacesResponse(TRUE, ifs, "none")
  \/ \E kind \in ErrorKinds : RetryIfacesResponse(FALSE, <<>>, kind)
  \/ \E devs \in DeviceLists : RetryDevicesResponse(TRUE, devs, "none")
  \/ \E kind \in ErrorKinds : RetryDevicesResponse(FALSE, <<>>, kind)

(***************************************************************************)
(* The rules page.                                                         *)
(***************************************************************************)
RulesInit ==
  /\ rules = <<>>
  /\ isLoading = TRUE
  /\ error = Null
  /\ refreshInterval = 0
  /\ activeTimers = {}
  /\ showDeleteConfirmation = FALSE
  /\ selectedRule = Null
  /\ mounted = FALSE
  /\ destroyed = FALSE
  /\ fetchThen = 0
  /\ fetchPlain = 0
  /\ updates = 0
  /\ tg = [s \in Slots |-> TgIdle]
  /\ dl = DlIdle

\* The user's actions and the backend's answers that do not belong to
\* toggleRule or deleteRule.
RefreshNext ==
  \/ \E b \in BOOLEAN : Mount(b)
  \/ ManualRefresh
  \/ HandleRuleAdded
  \/ HandleRuleEdited
  \/ \E resp \in GetResponses : FetchThenResponse(resp)
  \/ \E resp \in GetResponses : FetchPlainResponse(resp)
  \/ PeriodicTick
  \/ \E resp \in GetResponses : UpdateResponse(resp)

\* toggleRule from the response of toggle_firewall_rule on.
ToggleNext ==
  \/ \E s \in Slots, ok, changed \in BOOLEAN : ToggleResponse(s, ok, changed)
  \/ \E s \in Slots, ok \in BOOLEAN, st \in Statuses : ApplyResponse(s, ok, st)
  \/ \E s \in Slots, resp \in GetResponses : ToggleUpdateResponse(s, resp)

DeleteNext ==
  \/ \E i \in 1..MaxRows : OpenDeleteConfirmation(i)
  \/ CloseDeleteConfirmation
  \/ DeleteClick
  \/ \E ok \in BOOLEAN : DeleteResponse(ok)
  \/ \E ok \in BOOLEAN, st \in Statuses : DeleteApplyResponse(ok, st)
  \/ \E resp \in GetResponses : DeleteFetchResponse(resp)

\* The toggle buttons and the list refreshes, with up to MaxToggles
\* toggleRule calls in flight.
RulesNext ==
  \/ RefreshNext
  \/ \E i \in 1..MaxRows : ToggleClick(i)
  \/ ToggleNext

(***************************************************************************)
(* The authentication store.  logout awaits cleanupOnLogout, which awaits  *)
(* three commands one after the other; each promise carries its own        *)
(* .catch, so a rejection is logged and the await resolves.  Nothing keeps *)
(* logout from being called again while a call is in flight.               *)
(***************************************************************************)
LogoutSlots == 1..MaxLogouts

\* The commands cleanupOnLogout invokes, in the order of its statements.
CleanupCommands == << "clear_traffic_cache", "stop_log_polling", "clear_pin" >>

\* invoked: the commands the call has invoked, in order; failed: the ones
\* that rejected; returned: what cleanupOnLogout returned.
LoIdle == [pc |-> "idle", invoked |-> <<>>, failed |-> {}, returned |-> "none"]

LogoutRunning(s) == lo[s].pc \notin {"idle", "done"}

\* A failure of the n-th command skips the rest, as it would if the
\* rejection reached the try block of cleanupOnLogout.
CleanupAfterAborting(n, ok) ==
  IF n < Len(CleanupCommands) /\ ok THEN n + 1 ELSE 0

\* The statement cleanupOnLogout goes on with once its n-th command has
\* settled (0: the return): the rejection was handled by the .catch of the
\* promise, so both outcomes resume after the await.
CleanupAfter(n, ok) ==
  IF n < Len(CleanupCommands) THEN n + 1 ELSE 0

\* The store updated as soon as a command has settled, before the cleanup
\* is over.
LoggedInAfterEager(m, loggedIn) == FALSE

\* state.isLoggedIn once a command of the cleanup has settled and
\* cleanupOnLogout goes on with statement m: logout updates the store after
\* cleanupOnLogout has returned (m = 0), not before.
LoggedInAfter(m, loggedIn) == IF m = 0 THEN FALSE ELSE loggedIn

\* login
Login ==
  /\ isLoggedIn' = TRUE
  /\ UNCHANGED << isConfigured, lo, otherThanAuth >>

\* setConfigured(value)
SetConfigured(value) ==
  /\ isConfigured' = value
  /\ UNCHANGED << isLoggedIn, lo, otherThanAuth >>

\* reset
Reset ==
  /\ isLoggedIn' = FALSE
  /\ isConfigured' = FALSE
  /\ UNCHANGED << lo, otherThanAuth >>

\* logout, up to the first await of cleanupOnLogout.
Logout ==
  /\ \E s \in LogoutSlots : ~LogoutRunning(s)
  /\ LET s == Min({x \in LogoutSlots : ~LogoutRunning(x)})
     IN lo' = [lo EXCEPT ![s] = [LoIdle EXCEPT
                  !.pc = CleanupCommands[1],
                  !.invoked = << CleanupCommands[1] >>]]
  /\ UNCHANGED << isLoggedIn, isConfigured, otherThanAuth >>

\* The command a logout call awaits settles: cleanupOnLogout goes on to its
\* next command or returns, and on its return logout updates the store.
CleanupResponse(s, ok) ==
  /\ LogoutRunning(s)
  /\ LET n == CHOOSE i \in 1..Len(CleanupCommands) : CleanupCommands[i] = lo[s].pc
         m == CleanupAfter(n, ok)
         failed == IF ok THEN lo[s].failed ELSE lo[s].failed \cup {lo[s].pc}
     IN IF m = 0
        THEN /\ lo' = [lo EXCEPT ![s] = [@ EXCEPT !.pc = "done",
                                                  !.failed = failed,
                                                  !.returned = "true"]]
             /\ isLoggedIn' = LoggedInAfter(m, isLoggedIn)
        ELSE /\ lo' = [lo EXCEPT ![s] = [@ EXCEPT
                          !.pc = CleanupCommands[m],
                          !.invoked = Append(@, CleanupCommands[m]),
                          !.failed = failed]]
             /\ isLoggedIn' = LoggedInAfter(m, isLoggedIn)
  /\ UNCHANGED << isConfigured, otherThanAuth >>

AuthInit ==
  /\ isLoggedIn = FALSE
  /\ isConfigured = FALSE
  /\ lo = [s \in LogoutSlots |-> LoIdle]

AuthNext ==
  \/ Login
  \/ \E value \in BOOLEAN : SetConfigured(value)
  \/ Reset
  \/ Logout
  \/ \E s \in LogoutSlots, ok \in BOOLEAN : CleanupResponse(s, ok)

(***************************************************************************)
(* The dashboard store.  toggleWidget, updatePositions, resetToDefaults    *)
(* and the edit-mode methods are synchronous; loadPreferences and          *)
(* savePreferences await one command each.                                 *)
(***************************************************************************)
\* The widget_key values of DEFAULT_WIDGETS, in its order.
DefaultKeys ==
  << "uptime", "memory", "disk", "services", "traffic_graph", "gateways",
     "interfaces" >>

\* const DEFAULT_WIDGETS, cut to its first NumWidgets entries.
DEFAULT_WIDGETS ==
  [i \in 1..Min({NumWidgets, Len(DefaultKeys)}) |->
     [widget_key |-> DefaultKeys[i], visible |-> TRUE, position |-> i - 1]]

\* The keys callers pass: the ones of the defaults and one no widget has.
Keys == {DEFAULT_WIDGETS[i].widget_key : i \in 1..Len(DEFAULT_WIDGETS)} \cup {"clock"}

KeyLists == UNION {[1..n -> Keys] : n \in 0..MaxKeys}

NoWidget == [widget_key |-> "", visible |-> FALSE, position |-> -1]

SvIdle == [pc |-> "idle", payload |-> <<>>, nSave |-> 0, resolved |-> "none",
           returned |-> "none"]

\* new Map(state.widgets.map(w => [w.widget_key, w])).get(key): of two
\* entries with one key the Map keeps the later one.
KeyToWidget(list, key) ==
  IF \E i \in 1..Len(list) : list[i].widget_key = key
  THEN list[CHOOSE i \in 1..Len(list) :
              /\ list[i].widget_key = key
              /\ \A j \in (i + 1)..Len(list) : list[j].widget_key # key]
  ELSE NoWidget

\* updatePositions: orderedKeys.map(...).filter(Boolean)
UpdatedPositions(list, orderedKeys) ==
  LET mapped == [i \in 1..Len(orderedKeys) |->
                   IF KeyToWidget(list, orderedKeys[i]) # NoWidget
                   THEN [KeyToWidget(list, orderedKeys[i]) EXCEPT !.position = i - 1]
                   ELSE NoWidget]
  IN SelectSeq(mapped, LAMBDA w : w # NoWidget)

\* toggleWidget: state.widgets.map(...)
ToggledWidgets(list, key) ==
  [i \in 1..Len(list) |->
     IF list[i].widget_key = key
     THEN [list[i] EXCEPT !.visible = ~list[i].visible]
     ELSE list[i]]

\* The payload of savePreferences, with the visible widgets only.
SavePayloadVisibleOnly(list) == SelectSeq(list, LAMBDA w : w.visible)

\* savePreferences: { prefs: state.widgets }
SavePayload(list) == list

\* save_dashboard_preferences: the table is replaced by the rows of the
\* payload; widget_key is unique in the table, a later row of the payload
\* replaces an earlier one with its key.
SavedTable(payload) ==
  {payload[i] : i \in {k \in 1..Len(payload) :
     \A j \in (k + 1)..Len(payload) : payload[j].widget_key # payload[k].widget_key}}

\* The arrays Object.values(prefs).sort((a, b) => a.position - b.position)
\* can be: the values of the mapping in ascending position; the mapping
\* fixes no order among values of equal position.
SortedByPosition(table) ==
  {q \in [1..Cardinality(table) -> table] :
     /\ \A i, j \in 1..Cardinality(table) : i # j => q[i] # q[j]
     /\ \A i, j \in 1..Cardinality(table) : i < j => q[i].position <= q[j].position}

\* loadPreferences with the fallback of its catch block left empty.
LoadedEmptyOnFailure(ok, table) ==
  IF ok /\ table # {}
  THEN SortedByPosition(table)
  ELSE {<< >>}

\* loadPreferences from the response on: the widgets it can set.
Loaded(ok, table) ==
  IF ok /\ table # {}
  THEN SortedByPosition(table)
  ELSE {DEFAULT_WIDGETS}

\* loadPreferences, up to the await.
LoadPreferences ==
  /\ ld # "get_dashboard_preferences"
  /\ ld' = "get_dashboard_preferences"
  /\ UNCHANGED << widgets, isLoaded, isEditing, prefsTable, sv, otherThanDash >>

LoadResponse(ok) ==
  /\ ld = "get_dashboard_preferences"
  /\ ld' = IF ok THEN "resolved" ELSE "rejected"
  /\ widgets' \in Loaded(ok, prefsTable)
  /\ isLoaded' = TRUE
  /\ UNCHANGED << isEditing, prefsTable, sv, otherThanDash >>

\* savePreferences, up to the await; state.widgets is an array, and every
\* array is truthy.
SavePreferences ==
  /\ sv.pc \in {"idle", "done"}
  /\ sv' = [SvIdle EXCEPT !.pc = "save_dashboard_preferences",
                          !.payload = SavePayload(widgets),
                          !.nSave = 1]
  /\ UNCHANGED << widgets, isLoaded, isEditing, prefsTable, ld, otherThanDash >>

SaveResponse(ok) ==
  /\ sv.pc = "save_dashboard_preferences"
  /\ prefsTable' = IF ok THEN SavedTable(sv.payload) ELSE prefsTable
  /\ sv' = [sv EXCEPT !.pc = "done",
                      !.payload = <<>>,
                      !.resolved = IF ok THEN "true" ELSE "false",
                      !.returned = IF ok THEN "true" ELSE "false"]
  /\ UNCHANGED << widgets, isLoaded, isEditing, ld, otherThanDash >>

ToggleWidget(key) ==
  /\ widgets' = ToggledWidgets(widgets, key)
  /\ UNCHANGED << isLoaded, isEditing, prefsTable, ld, sv, otherThanDash >>

UpdatePositions(orderedKeys) ==
  /\ widgets' = UpdatedPositions(widgets, orderedKeys)
  /\ UNCHANGED << isLoaded, isEditing, prefsTable, ld, sv, otherThanDash >>

ResetToDefaults ==
  /\ widgets' = DEFAULT_WIDGETS
  /\ UNCHANGED << isLoaded, isEditing, prefsTable, ld, sv, otherThanDash >>

ToggleEditMode ==
  /\ isEditing' = ~isEditing
  /\ UNCHANGED << widgets, isLoaded, prefsTable, ld, sv, otherThanDash >>

ExitEditMode ==
  /\ isEditing' = FALSE
  /\ UNCHANGED << widgets, isLoaded, prefsTable, ld, sv, otherThanDash >>

DashInit ==
  /\ widgets = DEFAULT_WIDGETS
  /\ isLoaded = FALSE
  /\ isEditing = FALSE
  /\ prefsTable = {}
  /\ ld = "idle"
  /\ sv = SvIdle

DashNext ==
  \/ LoadPreferences
  \/ \E ok \in BOOLEAN : LoadResponse(ok)
  \/ SavePreferences
  \/ \E ok \in BOOLEAN : SaveResponse(ok)
  \/ \E key \in Keys : ToggleWidget(key)
  \/ \E orderedKeys \in KeyLists : UpdatePositions(orderedKeys)
  \/ ResetToDefaults
  \/ ToggleEditMode
  \/ ExitEditMode

(***************************************************************************)
(* The TopologyMap component.  An interface is reduced to device,          *)
(* identifier and is_physical, a device to mac and intf; the coordinates   *)
(* and labels of the nodes are left out.  `interface-${device}` is the     *)
(* pair << "interface-", device >>.                                        *)
(***************************************************************************)
\* identifier? of an interface that has none.
Absent == "undefined"

\* Interface.device of the inputs, loopback and sync pseudo-interfaces
\* among them, in the order the backend lists them.
IfaceOrder == << "igb0", "lo0", "pfsync0", "em0" >>

IfaceIds == {IfaceOrder[i] : i \in 1..Min({MaxIfaces, Len(IfaceOrder)})}

MacOrder == << "aa:bb", "cc:dd", "ee:ff" >>

Macs == {MacOrder[i] : i \in 1..Min({MaxDevices, Len(MacOrder)})}

\* The place of an id in the backend's order.
Rank(order, x) == CHOOSE i \in 1..Len(order) : order[i] = x

MapInterface == [device : IfaceIds, identifier : {Absent, "lan"}, is_physical : BOOLEAN]

\* intf names an interface of the input or one that is not there.
MapDevice == [mac : Macs, intf : IfaceIds \cup {"igb1"}]

\* The interfaces arrays: device is the id of an interface.
MapInterfaceLists ==
  UNION {{q \in [1..n -> MapInterface] :
            \A i, j \in 1..n :
               i < j => Rank(IfaceOrder, q[i].device) < Rank(IfaceOrder, q[j].device)} :
         n \in 0..MaxIfaces}

\* The devices arrays: mac is the id of a device.
MapDeviceLists ==
  UNION {{q \in [1..n -> MapDevice] :
            \A i, j \in 1..n :
               i < j => Rank(MacOrder, q[i].mac) < Rank(MacOrder, q[j].mac)} :
         n \in 0..MaxDevices}

\* A string or undefined used as a condition.
Truthy(x) == x \notin {Absent, ""}

\* The inclusion filter merged with the one of getActiveInterfaces.
IncludedIfActive(iface) ==
  /\ Truthy(iface.identifier) \/ iface.is_physical
  /\ iface.device \notin {"lo0", "pfsync0"}

\* iface.identifier || iface.is_physical
Included(iface) == Truthy(iface.identifier) \/ iface.is_physical

InterfaceNode(iface) ==
  [id |-> << "interface-", iface.device >>, type |-> "interface", data |-> iface]

DeviceNode(device) ==
  [id |-> << "device-", device.mac >>, type |-> "device", data |-> device]

\* What Array.prototype.find returns when no element matches.
NoNode == [id |-> << >>, type |-> "undefined", data |-> << >>]

InterfaceNodes(ifs) ==
  LET included == SelectSeq(ifs, Included)
  IN [i \in 1..Len(included) |-> InterfaceNode(included[i])]

\* Every device is taken to be connected to the first interface node.
ConnectsAlways(node, intf) == node.type = "interface"

\* node.type === 'interface' && node.data.device === device.intf
Connects(node, intf) == node.type = "interface" /\ node.data.device = intf

\* list.find(node => ...): the first node that matches, if any.
FindInterfaceNode(list, intf) ==
  IF \E i \in 1..Len(list) : Connects(list[i], intf)
  THEN list[CHOOSE i \in 1..Len(list) :
              /\ Connects(list[i], intf)
              /\ \A j \in 1..(i - 1) : ~Connects(list[j], intf)]
  ELSE NoNode

\* A device is drawn whether or not an interface node was found.
DrawnAlways(interfaceNode) == TRUE

\* if (interfaceNode) / if (sourceNode)
Drawn(interfaceNode) == interfaceNode # NoNode

Link(interfaceNode, device) ==
  [id |-> interfaceNode.id \o << "-" >> \o << "device-", device.mac >>,
   source |-> interfaceNode.id,
   target |-> << "device-", device.mac >>]

\* prepareTopologyData (D3 version): the interface nodes, then for every
\* device with an interface node its node and its link.
PrepareTopologyData(ifs, devs) ==
  LET ifaceNodes == InterfaceNodes(ifs)
      drawn == SelectSeq(devs, LAMBDA d : Drawn(FindInterfaceNode(ifaceNodes, d.intf)))
  IN [nodes |-> ifaceNodes \o [i \in 1..Len(drawn) |-> DeviceNode(drawn[i])],
      links |-> [i \in 1..Len(drawn) |->
                   Link(FindInterfaceNode(ifaceNodes, drawn[i].intf), drawn[i])]]

\* Of the devices of an interface only the first is kept.
ConnectedDevicesFirstOnly(devs, intf) ==
  LET all == SelectSeq(devs, LAMBDA d : d.intf = intf)
  IN IF all = << >> THEN << >> ELSE << Head(all) >>

\* prepareFlowData: interfaceDeviceMap.get(iface.device) || []
ConnectedDevices(devs, intf) == SelectSeq(devs, LAMBDA d : d.intf = intf)

\* prepareFlowData, second forEach: for the filtered interfaces from the
\* n-th on, the device nodes and the edges of their connected devices.
RECURSIVE FlowDevices(_, _, _, _)
FlowDevices(flowNodes, filtered, devs, n) ==
  IF n > Len(filtered)
  THEN [nodes |-> << >>, edges |-> << >>]
  ELSE LET sourceNode == FindInterfaceNode(flowNodes, filtered[n].device)
           connected == IF Drawn(sourceNode)
                        THEN ConnectedDevices(devs, filtered[n].device)
                        ELSE << >>
           rest == FlowDevices(flowNodes, filtered, devs, n + 1)
       IN [nodes |-> [i \in 1..Len(connected) |-> DeviceNode(connected[i])]
                        \o rest.nodes,
           edges |-> [i \in 1..Len(connected) |-> Link(sourceNode, connected[i])]
                        \o rest.edges]

\* prepareFlowData (SvelteFlow version): what it sets nodes and edges to.
PrepareFlowData(ifs, devs) ==
  LET filtered == SelectSeq(ifs, Included)
      flowNodes == [i \in 1..Len(filtered) |-> InterfaceNode(filtered[i])]
      fanned == FlowDevices(flowNodes, filtered, devs, 1)
  IN [nodes |-> flowNodes \o fanned.nodes, edges |-> fanned.edges]

\* $: if (interfaces && devices && containerElement && !isInitialized)
\*      setTimeout(initializeVisualization, 50)
\* run with containerElement bound: the timers pending afterwards.  The
\* two props are arrays, and every array is truthy.
D3Reactive(ifs, devs, initialized, pending) ==
  IF ~initialized THEN pending + 1 ELSE pending

\* $: if (interfaces.length > 0 || devices.length > 0) prepareFlowData()
FlowReactive(ifs, devs, held) ==
  IF Len(ifs) > 0 \/ Len(devs) > 0 THEN PrepareFlowData(ifs, devs) ELSE held

\* The devices arrays the D3 version is given.  It keeps the graph of
\* earlier props, so its states are pairs of inputs: the arrays are shorter.
D3DeviceLists == {q \in MapDeviceLists : Len(q) <= MaxD3Devices}

\* The page creates the D3 version with the props it has: the script runs
\* (the reactive block once, containerElement still unbound), the elements
\* are bound, onMount sets a timer, and the binding of containerElement
\* runs the reactive block again.
D3Mount(ifs, devs) ==
  /\ ~d3Mounted
  /\ d3Mounted' = TRUE
  /\ d3Interfaces' = ifs
  /\ d3Devices' = devs
  /\ initTimers' = D3Reactive(ifs, devs, isInitialized, initTimers + 1)
  /\ UNCHANGED << topologyData, isInitialized, resizeTimeout, otherThanD3 >>

\* The page passes new props; the reactive block runs.
D3SetProps(ifs, devs) ==
  /\ d3Mounted
  /\ << ifs, devs >> # << d3Interfaces, d3Devices >>
  /\ D3Reactive(ifs, devs, isInitialized, initTimers) <= MaxInitTimers
  /\ d3Interfaces' = ifs
  /\ d3Devices' = devs
  /\ initTimers' = D3Reactive(ifs, devs, isInitialized, initTimers)
  /\ UNCHANGED << d3Mounted, topologyData, isInitialized, resizeTimeout,
                  otherThanD3 >>

\* The interface filter of the page changes, or a refresh brings other
\* interfaces.
D3SetInterfaces(ifs) == D3SetProps(ifs, d3Devices)

\* A refresh brings other devices.
D3SetDevices(devs) == D3SetProps(d3Interfaces, devs)

\* initializeVisualization, both elements bound.
InitializeVisualization ==
  /\ topologyData' = PrepareTopologyData(d3Interfaces, d3Devices)
  /\ isInitialized' = TRUE

\* A setTimeout(initializeVisualization, 50) expires.
InitTimerFire ==
  /\ initTimers > 0
  /\ initTimers' = initTimers - 1
  /\ InitializeVisualization
  /\ UNCHANGED << d3Interfaces, d3Devices, d3Mounted, resizeTimeout, otherThanD3 >>

\* handleResize: the pending timer, if any, is replaced.
HandleResize ==
  /\ d3Mounted
  /\ resizeTimeout' = TRUE
  /\ UNCHANGED << d3Interfaces, d3Devices, d3Mounted, topologyData,
                  isInitialized, initTimers, otherThanD3 >>

\* The timer of handleResize expires: isInitialized = false, then
\* initializeVisualization sets it again before the reactive block runs.
ResizeTimerFire ==
  /\ resizeTimeout
  /\ resizeTimeout' = FALSE
  /\ InitializeVisualization
  /\ UNCHANGED << d3Interfaces, d3Devices, d3Mounted, initTimers, otherThanD3 >>

\* The page creates the SvelteFlow version with the props it has: the
\* script runs (the reactive block once), then onMount calls
\* prepareFlowData.
FlowMount(ifs, devs) ==
  /\ ~flowMounted
  /\ flowMounted' = TRUE
  /\ flowInterfaces' = ifs
  /\ flowDevices' = devs
  /\ nodes' = PrepareFlowData(ifs, devs).nodes
  /\ edges' = PrepareFlowData(ifs, devs).edges
  /\ UNCHANGED otherThanFlow

\* The page passes new props; the reactive block runs.
FlowSetProps(ifs, devs) ==
  /\ flowMounted
  /\ << ifs, devs >> # << flowInterfaces, flowDevices >>
  /\ flowInterfaces' = ifs
  /\ flowDevices' = devs
  /\ nodes' = FlowReactive(ifs, devs, [nodes |-> nodes, edges |-> edges]).nodes
  /\ edges' = FlowReactive(ifs, devs, [nodes |-> nodes, edges |-> edges]).edges
  /\ UNCHANGED << flowMounted, otherThanFlow >>

FlowSetInterfaces(ifs) == FlowSetProps(ifs, flowDevices)

FlowSetDevices(devs) == FlowSetProps(flowInterfaces, devs)

\* The page removes the D3 version (its {#if} branch closes while a refresh
\* is loading): the next one is a new instance.  The timers of the old
\* instance find containerElement unbound and do nothing.
D3Unmount ==
  /\ d3Mounted
  /\ d3Mounted' = FALSE
  /\ d3Interfaces' = << >>
  /\ d3Devices' = << >>
  /\ topologyData' = [nodes |-> << >>, links |-> << >>]
  /\ isInitialized' = FALSE
  /\ initTimers' = 0
  /\ resizeTimeout' = FALSE
  /\ UNCHANGED otherThanD3

\* The page removes the SvelteFlow version.
FlowUnmount ==
  /\ flowMounted
  /\ flowMounted' = FALSE
  /\ flowInterfaces' = << >>
  /\ flowDevices' = << >>
  /\ nodes' = << >>
  /\ edges' = << >>
  /\ UNCHANGED otherThanFlow

MapInit ==
  /\ d3Interfaces = << >>
  /\ d3Devices = << >>
  /\ d3Mounted = FALSE
  /\ topologyData = [nodes |-> << >>, links |-> << >>]
  /\ isInitialized = FALSE
  /\ initTimers = 0
  /\ resizeTimeout = FALSE
  /\ flowInterfaces = << >>
  /\ flowDevices = << >>
  /\ flowMounted = FALSE
  /\ nodes = << >>
  /\ edges = << >>

D3Next ==
  \/ \E ifs \in MapInterfaceLists, devs \in D3DeviceLists : D3Mount(ifs, devs)
  \/ \E ifs \in MapInterfaceLists : D3SetInterfaces(ifs)
  \/ \E devs \in D3DeviceLists : D3SetDevices(devs)
  \/ InitTimerFire
  \/ HandleResize
  \/ ResizeTimerFire
  \/ D3Unmount

FlowNext ==
  \/ \E ifs \in MapInterfaceLists, devs \in MapDeviceLists : FlowMount(ifs, devs)
  \/ \E ifs \in MapInterfaceLists : FlowSetInterfaces(ifs)
  \/ \E devs \in MapDeviceLists : FlowSetDevices(devs)
  \/ FlowUnmount

(***************************************************************************)
(* The fill colours of the nodes.  getInterfaceColor exists in three       *)
(* copies (InterfaceNode and both versions of TopologyMap), getDeviceColor *)
(* in two.  A status is a sequence of one-character strings.               *)
(***************************************************************************)
\* The letters the statuses are written with, and their capitals.
UpperCase ==
  [c \in {"u", "p", "d", "o", "w", "n", "c", "a", "r", "i", "e", "k"} |->
     CASE c = "u" -> "U" [] c = "p" -> "P" [] c = "d" -> "D" [] c = "o" -> "O"
       [] c = "w" -> "W" [] c = "n" -> "N" [] c = "c" -> "C" [] c = "a" -> "A"
       [] c = "r" -> "R" [] c = "i" -> "I" [] c = "e" -> "E" [] c = "k" -> "K"]

\* The status values of the data model and of the appliance, in lower case.
StatusWords ==
  { << "u", "p" >>,
    << "d", "o", "w", "n" >>,
    << "n", "o", " ", "c", "a", "r", "r", "i", "e", "r" >>,
    << "n", "o", "_", "c", "a", "r", "r", "i", "e", "r" >>,
    << "u", "n", "k", "n", "o", "w", "n" >> }

\* A word in every letter case: the letters at any set of places are
\* capitals.
CaseVariants(word) ==
  {[i \in 1..Len(word) |->
      IF i \in capitals /\ word[i] \in DOMAIN UpperCase
      THEN UpperCase[word[i]]
      ELSE word[i]] : capitals \in SUBSET (1..Len(word))}

\* The status of an interface that has none: no string equals it.
NoStatus == << "undefined" >>

\* Interface.status of the inputs.
StatusInputs == UNION {CaseVariants(word) : word \in StatusWords} \cup {NoStatus}

\* A comparison that keeps the letter case.
CaseKept(status) == status

\* iface.status?.toLowerCase(): undefined stays undefined.
ToLowerCase(status) ==
  IF status = NoStatus
  THEN NoStatus
  ELSE [i \in 1..Len(status) |->
          IF \E c \in DOMAIN UpperCase : UpperCase[c] = status[i]
          THEN CHOOSE c \in DOMAIN UpperCase : UpperCase[c] = status[i]
          ELSE status[i]]

Green == "#4CAF50"
Red == "#F44336"
Amber == "#FFA000"
Gray == "#9E9E9E"
Blue == "#2196F3"
Purple == "#673AB7"

\* The switch of getInterfaceColor.
InterfaceColorCase(lowered) ==
  CASE lowered = << "u", "p" >> -> Green
    [] lowered = << "d", "o", "w", "n" >> -> Red
    [] lowered = << "n", "o", " ", "c", "a", "r", "r", "i", "e", "r" >> -> Amber
    [] OTHER -> Gray

\* getInterfaceColor of InterfaceNode.svelte
NodeGetInterfaceColor(iface) == InterfaceColorCase(ToLowerCase(iface.status))

\* getInterfaceColor of the D3 version
D3GetInterfaceColor(iface) == InterfaceColorCase(ToLowerCase(iface.status))

\* getInterfaceColor of the SvelteFlow version
FlowGetInterfaceColor(iface) == InterfaceColorCase(ToLowerCase(iface.status))

\* getDeviceColor with the two tests exchanged.
GetDeviceColorExpiredFirst(device) ==
  IF device.expired THEN Gray
  ELSE IF device.permanent THEN Blue
  ELSE Purple

\* getDeviceColor of the D3 version
D3GetDeviceColor(device) ==
  IF device.permanent THEN Blue
  ELSE IF device.expired THEN Gray
  ELSE Purple

\* getDeviceColor of the SvelteFlow version
FlowGetDeviceColor(device) ==
  IF device.permanent THEN Blue
  ELSE IF device.expired THEN Gray
  ELSE Purple

NothingPainted == [type |-> "none", data |-> << >>, fill |-> << >>]

\* An interface node is created and painted: const color =
\* getInterfaceColor(...) of InterfaceNode, the fill attribute of the D3
\* version, and the helper of the SvelteFlow version.
PaintInterface(iface) ==
  /\ painted = NothingPainted
  /\ painted' = [type |-> "interface", data |-> iface,
                 fill |-> << NodeGetInterfaceColor(iface),
                             D3GetInterfaceColor(iface),
                             FlowGetInterfaceColor(iface) >>]
  /\ UNCHANGED otherThanPaint

\* A device node is created and painted.
PaintDevice(device) ==
  /\ painted = NothingPainted
  /\ painted' = [type |-> "device", data |-> device,
                 fill |-> << D3GetDeviceColor(device), FlowGetDeviceColor(device) >>]
  /\ UNCHANGED otherThanPaint

\* The node is removed: svg.selectAll("*").remove(), or the graph is
\* replaced.
ClearPainted ==
  /\ painted # NothingPainted
  /\ painted' = NothingPainted
  /\ UNCHANGED otherThanPaint

PaintInit == painted = NothingPainted

PaintNext ==
  \/ \E status \in StatusInputs : PaintInterface([status |-> status])
  \/ \E permanent, expired \in BOOLEAN :
        PaintDevice([permanent |-> permanent, expired |-> expired])
  \/ ClearPainted

InitBut ==
  RulesInit /\ TopoInit /\ AuthInit /\ DashInit /\ MapInit /\ PaintInit

Init == InitBut /\ gets = NoGets

Spec == Init /\ [][RulesNext]_vars

\* A toggle button is clicked while no toggleRule call is in flight.
ToggleClickAlone(i) == Running(tg) = {} /\ ToggleClick(i)

\* Both mutating sequences and the list refreshes: toggleRule calls one at a
\* time, next to a deleteRule call.
WritesNext ==
  \/ RefreshNext
  \/ \E i \in 1..MaxRows : ToggleClickAlone(i)
  \/ ToggleNext
  \/ DeleteNext

SpecWrites == Init /\ [][WritesNext]_vars

\* The list refreshes of the rules page over the life of the page, from
\* onMount to onDestroy and after.
LifecycleNext ==
  \/ RefreshNext
  \/ Destroy

SpecRefresh == Init /\ [][LifecycleNext]_vars

\* The requests for the list that can be in flight together, with their
\* order recorded: the refreshes and one toggleRule call.
OrderNext ==
  \/ RefreshNext
  \/ \E i \in 1..MaxRows : ToggleClickAlone(i)
  \/ ToggleNext

OrderInit == InitBut /\ gets = [NoGets EXCEPT !.watch = TRUE]

SpecOrder == OrderInit /\ [][OrderNext]_vars

\* The topology page.
SpecTopo == Init /\ [][TopoNext]_vars

\* The same, with time passing and the timers the runtime lets expire;
\* nothing makes the backend answer.
FairTopo == SpecTopo /\ WF_vars(Tick) /\ WF_vars(TimerFire)

\* The authentication store.
SpecAuth == Init /\ [][AuthNext]_vars

\* The dashboard store.
SpecDash == Init /\ [][DashNext]_vars

\* The D3 version of the TopologyMap component.
SpecD3 == Init /\ [][D3Next]_vars

\* The SvelteFlow version of the TopologyMap component.
SpecFlow == Init /\ [][FlowNext]_vars

\* The fill colours of the nodes.
SpecPaint == Init /\ [][PaintNext]_vars

(***************************************************************************)
(* Properties.                                                             *)
(***************************************************************************)

\* C1: a toggleRule call whose toggle_firewall_rule answered changed=false
\* never calls apply_firewall_changes and has returned without running its
\* catch block (no rollback, no error toast) and without re-fetching.
C1_UnchangedNeverApplies ==
  \A s \in Slots :
    tg[s].changed = "false" =>
      /\ tg[s].nApply = 0
      /\ tg[s].nGet = 0
      /\ tg[s].pc = "done"
      /\ ~tg[s].caught

C1_Witness ==
  \E s \in Slots :
    tg[s].pc = "done" /\ tg[s].changed = "false" /\ tg[s].nToggle = 1

\* C2: when apply_firewall_changes fails after a changed=true toggle, the
\* enabled value the list shows for the rule's uuid as toggleRule returns is
\* the value it showed when toggleRule started, whatever list refreshes ran
\* in between (a rule the list no longer holds shows no value).
C2_FailedApplyRestoresShown ==
  [][\A s \in Slots :
       (tg[s].pc = "apply" /\ tg'[s].pc = "done") =>
         Shown(rules', tg[s].uuid) \in {tg[s].originalStatus, "none"}]_vars

\* C3: no two toggleRule calls are in flight for the same uuid.
C3_OneSequencePerUuid ==
  \A s1, s2 \in Running(tg) : s1 # s2 => tg[s1].uuid # tg[s2].uuid

\* C4: after delete_firewall_rule succeeded, deleteRule reports success
\* (success toast, dialog closed) only if apply_firewall_changes answered a
\* status that is "OK" after trimming, and reports a failure otherwise.
C4_DeleteSuccessOnlyIfOk ==
  LET applyOk == dl.applied = "ok" /\ Trim(dl.status) = OK
  IN /\ (dl.toast = "success" \/ dl.closed) => applyOk
     /\ (dl.pc = "done" /\ dl.deleted = "ok" /\ ~applyOk) => dl.toast = "error"

\* C5: no mutating command is issued twice by one call: a toggleRule call
\* has called toggle_firewall_rule exactly once and apply_firewall_changes
\* at most once, a deleteRule call delete_firewall_rule and
\* apply_firewall_changes at most once each, whatever the calls answered.
C5_MutationsAtMostOnce ==
  /\ \A s \in Slots :
       /\ tg[s].pc # "idle" => tg[s].nToggle = 1
       /\ tg[s].nToggle <= 1
       /\ tg[s].nApply <= 1
  /\ dl.nDelete <= 1
  /\ dl.nApply <= 1

C5_Witness ==
  /\ \E s \in Slots :
       tg[s].pc = "done" /\ tg[s].applied = "throw" /\ tg[s].nApply = 1
  /\ dl.pc = "apply" /\ dl.nDelete = 1 /\ dl.nApply = 1

\* C6: apply_firewall_changes has been called only by a sequence whose
\* staging call has answered: toggle_firewall_rule with changed=true,
\* delete_firewall_rule without a failure.
C6_StagedBeforeApplying ==
  /\ \A s \in Slots : tg[s].nApply > 0 => tg[s].changed = "true"
  /\ dl.nApply > 0 => dl.deleted = "ok"

C6_Witness ==
  /\ \E s \in Slots : tg[s].pc = "apply" /\ tg[s].changed = "true"
  /\ dl.pc = "apply" /\ dl.deleted = "ok"

\* C7: once apply_firewall_changes has settled in toggleRule, the call took
\* the commit path (get_firewall_rules requested through updateRules before
\* it returns, catch block not run) exactly when the status is "OK" after
\* trimming; otherwise it has returned through its catch block.
C7_CommittedIffTrimmedOk ==
  \A s \in Slots :
    tg[s].applied # "none" =>
      IF tg[s].applied = "ok" /\ Trim(tg[s].status) = OK
      THEN tg[s].pc \in {"update", "done"} /\ tg[s].nGet = 1 /\ ~tg[s].caught
      ELSE tg[s].pc = "done" /\ tg[s].nGet = 0 /\ tg[s].caught

C7_Witness ==
  \E s \in Slots :
    /\ tg[s].pc = "done"
    /\ tg[s].applied = "ok"
    /\ tg[s].status = <<" ", "O", "K", "\n">>
    /\ tg[s].nGet = 1

\* C8: a fetchData call requests get_interfaces and get_combined_devices at
\* most twice each and retries at most once; when its first attempt timed
\* out it has retried exactly once; when the retry failed it has returned
\* with error set and an error toast.
C8_ExactlyOneRetry ==
  /\ fd.nIfaces <= 2 /\ fd.nDevices <= 2 /\ fd.retries <= 1
  /\ fd.firstFailure = "timeout" => fd.retries = 1
  /\ fd.retryFailure # "none" =>
       /\ fd.pc = "done"
       /\ fd.retries = 1
       /\ topoError # Null
       /\ fd.toast # "none"
       /\ ~topoIsLoading

C8_Witness ==
  /\ fd.pc = "done"
  /\ fd.firstFailure = "timeout"
  /\ fd.retryFailure # "none"
  /\ fd.nIfaces = 2

\* C9: a fetchData call that waits for a request of its retry returns, with
\* isLoading = false, even if the backend never answers that request.
C9_RetryTerminates ==
  (fd.pc \in {"retryIfaces", "retryDevices"}) ~> (fd.pc = "done" /\ ~topoIsLoading)

\* C10: a fetchData call whose first attempt failed with an error that is
\* not a timeout has surfaced that error and has not retried.
C10_RetryOnlyAfterTimeout ==
  fd.firstFailure \in ErrorKinds =>
    /\ fd.retries = 0
    /\ fd.pc = "done"
    /\ topoError = fd.firstFailure

\* C11: a logout call that finishes has invoked clear_traffic_cache,
\* stop_log_polling and clear_pin, each once and in that order, whichever of
\* them failed, and the step that finishes it leaves isLoggedIn false.
C11_LogoutInvokesAllCleanup ==
  [][\A s \in LogoutSlots :
       (LogoutRunning(s) /\ lo'[s].pc = "done") =>
          /\ lo'[s].invoked = CleanupCommands
          /\ ~isLoggedIn']_vars

\* A logout call has finished although all three commands failed.
C11_Witness ==
  \E s \in LogoutSlots :
     /\ lo[s].pc = "done"
     /\ lo[s].failed = {CleanupCommands[i] : i \in 1..Len(CleanupCommands)}
     /\ lo[s].invoked = CleanupCommands
     /\ ~isLoggedIn

\* C12: in every state of the dashboard store the widget_key values of the
\* widgets held are pairwise distinct and their positions are exactly
\* 0..N-1, N being the number of widgets held.
C12_DensePermutation ==
  /\ \A i, j \in 1..Len(widgets) :
        i # j => widgets[i].widget_key # widgets[j].widget_key
  /\ {widgets[i].position : i \in 1..Len(widgets)} = 0..(Len(widgets) - 1)

\* orderedKeys lists the keys of the widgets held, each as often as it is
\* held, in some order.
IsPermutationOfHeld(orderedKeys, list) ==
  /\ Len(orderedKeys) = Len(list)
  /\ \A k \in Keys :
        Cardinality({i \in 1..Len(orderedKeys) : orderedKeys[i] = k})
          = Cardinality({i \in 1..Len(list) : list[i].widget_key = k})

\* C13: in every state of the store, updatePositions with a permutation of
\* the keys held yields the widgets held in the given order, the i-th with
\* position i - 1 and its visible value kept, and saving that list and
\* loading it again gives the same entries in the same order.
C13_PermutationRoundTrip ==
  \A orderedKeys \in KeyLists :
     IsPermutationOfHeld(orderedKeys, widgets) =>
        LET updated == UpdatedPositions(widgets, orderedKeys)
        IN /\ Len(updated) = Len(orderedKeys)
           /\ \A i \in 1..Len(orderedKeys) :
                 /\ updated[i].widget_key = orderedKeys[i]
                 /\ updated[i].position = i - 1
                 /\ \E j \in 1..Len(widgets) :
                       /\ widgets[j].widget_key = orderedKeys[i]
                       /\ widgets[j].visible = updated[i].visible
           /\ Loaded(TRUE, SavedTable(SavePayload(updated))) = {updated}

\* C14: savePreferences issues one save_dashboard_preferences call, its
\* payload is the whole list of widgets the store holds at the call, it
\* returns true exactly when the call resolved, and neither of its two
\* steps changes the state of the store.
C14_SaveSendsWholeList ==
  [][/\ (sv.pc # "save_dashboard_preferences" /\ sv'.pc = "save_dashboard_preferences") =>
          /\ sv'.payload = widgets
          /\ sv'.nSave = 1
          /\ << widgets, isLoaded, isEditing >>' = << widgets, isLoaded, isEditing >>
     /\ (sv.pc = "save_dashboard_preferences" /\ sv'.pc = "done") =>
          /\ sv'.nSave = 1
          /\ sv'.returned = sv'.resolved
          /\ << widgets, isLoaded, isEditing >>' = << widgets, isLoaded, isEditing >>]_vars

\* A save has returned true, and the table holds all the widgets of the
\* store, a hidden one among them.
C14_Witness ==
  /\ sv.pc = "done"
  /\ sv.returned = "true"
  /\ prefsTable = {widgets[i] : i \in 1..Len(widgets)}
  /\ Len(widgets) = Len(DEFAULT_WIDGETS)
  /\ \E i \in 1..Len(widgets) : ~widgets[i].visible

\* The graphs the two builders make of the props the component holds.
BuiltGraphs ==
  LET d3 == PrepareTopologyData(flowInterfaces, flowDevices)
      flow == PrepareFlowData(flowInterfaces, flowDevices)
  IN {[nodes |-> d3.nodes, edges |-> d3.links],
      [nodes |-> flow.nodes, edges |-> flow.edges]}

\* C15: both builders make one interface node for every interface that has
\* an identifier or is physical, none for any other interface and no
\* interface node besides; lo0 and pfsync0 are treated like the rest.
C15_InterfaceNodes ==
  \A g \in BuiltGraphs :
     /\ \A i \in 1..Len(flowInterfaces) :
           Cardinality({k \in 1..Len(g.nodes) :
                          /\ g.nodes[k].type = "interface"
                          /\ g.nodes[k].data = flowInterfaces[i]
                          /\ g.nodes[k].id = << "interface-", flowInterfaces[i].device >>})
             = IF flowInterfaces[i].identifier # Absent \/ flowInterfaces[i].is_physical
               THEN 1 ELSE 0
     /\ Cardinality({k \in 1..Len(g.nodes) : g.nodes[k].type = "interface"})
          = Cardinality({i \in 1..Len(flowInterfaces) :
                           flowInterfaces[i].identifier # Absent
                             \/ flowInterfaces[i].is_physical})

\* The component holds a node for lo0, which is not physical but has an
\* identifier, next to an interface that has neither and no node.
C15_Witness ==
  /\ flowMounted
  /\ \E k \in 1..Len(nodes) :
        /\ nodes[k].id = << "interface-", "lo0" >>
        /\ ~nodes[k].data.is_physical
  /\ \E i \in 1..Len(flowInterfaces) :
        /\ flowInterfaces[i].identifier = Absent
        /\ ~flowInterfaces[i].is_physical
        /\ \A k \in 1..Len(nodes) : nodes[k].id # << "interface-", flowInterfaces[i].device >>

\* C16: the graph holds exactly one device node for every device of the
\* input.
C16_OneNodePerDevice ==
  \A g \in BuiltGraphs :
     \A j \in 1..Len(flowDevices) :
        Cardinality({k \in 1..Len(g.nodes) :
                       /\ g.nodes[k].type = "device"
                       /\ g.nodes[k].data = flowDevices[j]}) = 1

\* C16, amended: the graph holds exactly one device node for every device
\* whose intf is the device id of an included interface, and no device
\* node for any other device.
C16_OneNodePerConnectedDevice ==
  \A g \in BuiltGraphs :
     /\ \A j \in 1..Len(flowDevices) :
           Cardinality({k \in 1..Len(g.nodes) :
                          /\ g.nodes[k].type = "device"
                          /\ g.nodes[k].data = flowDevices[j]
                          /\ g.nodes[k].id = << "device-", flowDevices[j].mac >>})
             = IF \E i \in 1..Len(flowInterfaces) :
                     /\ flowInterfaces[i].device = flowDevices[j].intf
                     /\ (flowInterfaces[i].identifier # Absent \/ flowInterfaces[i].is_physical)
               THEN 1 ELSE 0
     /\ Cardinality({k \in 1..Len(g.nodes) : g.nodes[k].type = "device"})
          = Cardinality({j \in 1..Len(flowDevices) :
               \E i \in 1..Len(flowInterfaces) :
                  /\ flowInterfaces[i].device = flowDevices[j].intf
                  /\ (flowInterfaces[i].identifier # Absent \/ flowInterfaces[i].is_physical)})

\* The component holds the node of one device and none of another one,
\* whose intf names no interface of the input.
C16_Witness ==
  /\ flowMounted
  /\ Len(flowDevices) = 2
  /\ \E k \in 1..Len(nodes) : nodes[k].type = "device" /\ nodes[k].data = flowDevices[1]
  /\ flowDevices[2].intf = "igb1"
  /\ \A k \in 1..Len(nodes) : nodes[k].id # << "device-", flowDevices[2].mac >>

\* C17: the graph has one edge for every device whose intf is the device id
\* of an included interface, from the node of that interface to the node of
\* the device, no edge for any other device and no edge besides, and both
\* ends of every edge are nodes of the graph.
C17_Edges ==
  \A g \in BuiltGraphs :
     /\ \A j \in 1..Len(flowDevices) :
           LET to == {k \in 1..Len(g.edges) :
                        g.edges[k].target = << "device-", flowDevices[j].mac >>}
           IN IF \E i \in 1..Len(flowInterfaces) :
                    /\ flowInterfaces[i].device = flowDevices[j].intf
                    /\ (flowInterfaces[i].identifier # Absent \/ flowInterfaces[i].is_physical)
              THEN /\ Cardinality(to) = 1
                   /\ \A k \in to :
                         g.edges[k].source = << "interface-", flowDevices[j].intf >>
              ELSE to = {}
     /\ \A k \in 1..Len(g.edges) :
           /\ \E j \in 1..Len(flowDevices) :
                 g.edges[k].target = << "device-", flowDevices[j].mac >>
           /\ \E n \in 1..Len(g.nodes) : g.nodes[n].id = g.edges[k].source
           /\ \E n \in 1..Len(g.nodes) : g.nodes[n].id = g.edges[k].target

\* The component holds the edges of two devices of one interface, and the
\* input has an interface that is left out.
C17_Witness ==
  /\ flowMounted
  /\ Len(edges) = 2
  /\ edges[1].source = edges[2].source
  /\ edges[1].target # edges[2].target
  /\ \E i \in 1..Len(flowInterfaces) :
        \A k \in 1..Len(nodes) : nodes[k].id # << "interface-", flowInterfaces[i].device >>

\* C18: the status of an interface decides its colour whatever its letter
\* case: up is green, down is red, no_carrier is amber, every other value
\* is gray, and the three copies of getInterfaceColor return the same.
C18_StatusBuckets ==
  painted.type = "interface" =>
     LET lowered == ToLowerCase(painted.data.status)
         expected == CASE lowered = << "u", "p" >> -> Green
                       [] lowered = << "d", "o", "w", "n" >> -> Red
                       [] lowered = << "n", "o", "_", "c", "a", "r", "r", "i", "e", "r" >> -> Amber
                       [] OTHER -> Gray
     IN painted.fill = << expected, expected, expected >>

\* C18, amended: up is green, down is red, "no carrier", written with a
\* space, is amber, each in any letter case; every other value, no_carrier
\* with an underscore and a missing status among them, is gray; the three
\* copies return the same.
C18_StatusBucketsNoCarrierSpaced ==
  painted.type = "interface" =>
     LET status == painted.data.status
         expected ==
           IF status \in CaseVariants(<< "u", "p" >>) THEN Green
           ELSE IF status \in CaseVariants(<< "d", "o", "w", "n" >>) THEN Red
           ELSE IF status \in CaseVariants(<< "n", "o", " ", "c", "a", "r", "r", "i", "e", "r" >>)
                THEN Amber
           ELSE Gray
     IN painted.fill = << expected, expected, expected >>

\* An interface whose status is "No Carrier" was painted amber.
C18_Witness ==
  /\ painted.type = "interface"
  /\ painted.data.status = << "N", "o", " ", "C", "a", "r", "r", "i", "e", "r" >>
  /\ painted.fill = << Amber, Amber, Amber >>

\* C19: a permanent device is blue whatever its expired flag, a device that
\* is not permanent but expired is gray, every other device is purple, in
\* both copies of getDeviceColor.
C19_PermanentBeforeExpired ==
  painted.type = "device" =>
     /\ painted.data.permanent => painted.fill = << Blue, Blue >>
     /\ (~painted.data.permanent /\ painted.data.expired) => painted.fill = << Gray, Gray >>
     /\ (~painted.data.permanent /\ ~painted.data.expired) => painted.fill = << Purple, Purple >>

\* A device that is both permanent and expired was painted blue.
C19_Witness ==
  /\ painted.type = "device"
  /\ painted.data.permanent
  /\ painted.data.expired
  /\ painted.fill = << Blue, Blue >>

\* C20: once the timers of the D3 version have expired, its topologyData is
\* the graph of the props it holds now, and the nodes and edges of the
\* SvelteFlow version are the graph of the props it holds now.
C20_GraphOfCurrentInputs ==
  /\ (d3Mounted /\ initTimers = 0 /\ ~resizeTimeout) =>
        topologyData = PrepareTopologyData(d3Interfaces, d3Devices)
  /\ flowMounted =>
        [nodes |-> nodes, edges |-> edges] = PrepareFlowData(flowInterfaces, flowDevices)

\* C21: loadPreferences always ends with isLoaded = true; when
\* get_dashboard_preferences returns a non-empty mapping the widgets are
\* exactly its entries in ascending position, when it returns an empty
\* mapping or fails they are the default configuration; isEditing is
\* unchanged in all three cases.
C21_LoadEndsLoaded ==
  [][(ld = "get_dashboard_preferences" /\ ld' # ld) =>
       /\ isLoaded'
       /\ isEditing' = isEditing
       /\ (ld' = "resolved" /\ prefsTable # {}) =>
             /\ Len(widgets') = Cardinality(prefsTable)
             /\ {widgets'[i] : i \in 1..Len(widgets')} = prefsTable
             /\ \A i, j \in 1..Len(widgets') :
                   i < j => widgets'[i].position <= widgets'[j].position
       /\ (ld' = "rejected" \/ prefsTable = {}) => widgets' = DEFAULT_WIDGETS]_vars

\* C21 witness: a load that returned a saved mapping of two entries other
\* than the defaults has ended while the dashboard is in edit mode.
C21_Witness ==
  /\ ld = "resolved"
  /\ isLoaded
  /\ isEditing
  /\ Cardinality(prefsTable) = 2
  /\ widgets # DEFAULT_WIDGETS
  /\ {widgets[i] : i \in 1..Len(widgets)} = prefsTable

\* C22: a step of a logout call changes isLoggedIn only when it is the step
\* on which the last of the three cleanup commands settles, and then to
\* false; until then the call leaves isLoggedIn as it was; no step of a
\* logout call changes isConfigured.
C22_CleanupThenState ==
  [][\A s \in LogoutSlots :
       (lo'[s] # lo[s]) =>
          /\ isConfigured' = isConfigured
          /\ (isLoggedIn' # isLoggedIn) =>
                /\ ~isLoggedIn'
                /\ lo[s].invoked = CleanupCommands
                /\ lo[s].pc = CleanupCommands[Len(CleanupCommands)]
                /\ lo'[s].pc = "done"
          /\ lo'[s].pc = "done" => ~isLoggedIn']_vars

\* C22 witness: a logout call of a logged-in, configured user has had two
\* commands settle, one of them failing, and awaits the third; isLoggedIn
\* is still true.
C22_Witness ==
  \E s \in LogoutSlots :
     /\ lo[s].pc = CleanupCommands[3]
     /\ lo[s].invoked = CleanupCommands
     /\ lo[s].failed # {}
     /\ isLoggedIn
     /\ isConfigured

\* C23: when the timeout ends the wait of a fetchData call for
\* get_combined_devices, the call has waited for that request for the full
\* loadTimeout, whatever time get_interfaces took before.
C23_DevicesFullTimeout ==
  [][(fd.pc = "devices" /\ fd.firstFailure = "none" /\ fd'.firstFailure = "timeout") =>
       fd.devicesWaited = loadTimeout]_vars

\* C24: once a fetchData call has ended in success and the page holds active
\* interfaces, no step of a later fetchData call changes selectedInterfaces,
\* a selection the user has emptied included.
C24_SelectionInitializedOnce ==
  [][(fd' # fd /\ fd.loaded /\ ActiveDevices(interfaces) # <<>>) =>
       selectedInterfaces' = selectedInterfaces]_vars

\* C25: at most one periodic refresh timer is active at any time, and after
\* onDestroy no refresh timer is active, so that no timer issues
\* get_firewall_rules any more.
C25_OneTimerNoneAfterDestroy ==
  /\ Cardinality(activeTimers) <= 1
  /\ destroyed => activeTimers = {}

\* C26: the rules list shown is never replaced by the response to a request
\* that was issued before the request whose response it showed.
C26_NoOlderSnapshot == ~gets.stale

\* C27: a fetchData call that ended in failure reports a timeout (hasTimeout
\* read as true, the 'timed out' toast) only if the timer that call set
\* has expired; the timer of an earlier call does not make it do so.
C27_TimeoutOfThisCall ==
  (fd.pc = "done" /\ fd.toast = "timeout") =>
     ~\E i \in DOMAIN timers : timers[i].latest

\* C28: on an input whose interface device ids are pairwise distinct and
\* whose device macs are pairwise distinct, prepareTopologyData and
\* prepareFlowData build the same set of node ids and the same set of
\* (source, target) edges, and in each result the node ids are pairwise
\* distinct and so are the edge ids.
C28_BuildersAgree ==
  LET d3 == PrepareTopologyData(flowInterfaces, flowDevices)
      flow == PrepareFlowData(flowInterfaces, flowDevices)
      IdsOf(list) == {list[k].id : k \in 1..Len(list)}
      ends(list) == {<< list[k].source, list[k].target >> : k \in 1..Len(list)}
  IN (/\ \A i, j \in 1..Len(flowInterfaces) :
            i # j => flowInterfaces[i].device # flowInterfaces[j].device
      /\ \A i, j \in 1..Len(flowDevices) :
            i # j => flowDevices[i].mac # flowDevices[j].mac)
     =>
     /\ IdsOf(d3.nodes) = IdsOf(flow.nodes)
     /\ ends(d3.links) = ends(flow.edges)
     /\ Cardinality(IdsOf(d3.nodes)) = Len(d3.nodes)
     /\ Cardinality(IdsOf(flow.nodes)) = Len(flow.nodes)
     /\ Cardinality(IdsOf(d3.links)) = Len(d3.links)
     /\ Cardinality(IdsOf(flow.edges)) = Len(flow.edges)

\* C28 witness: the component holds the graph of two interfaces and two
\* devices, one on each, which the two builders list in different orders.
C28_Witness ==
  /\ flowMounted
  /\ Len(edges) = 2
  /\ edges[1].source # edges[2].source
  /\ [nodes |-> nodes, edges |-> edges] = PrepareFlowData(flowInterfaces, flowDevices)
  /\ PrepareTopologyData(flowInterfaces, flowDevices).nodes # nodes

\* $: totalActiveInterfaces = getActiveInterfaces().length -- the statement
\* names no variable of the component, so it runs once, when the component
\* is created and interfaces is still [].
totalActiveInterfaces == Len(ActiveDevices(<< >>))

\* C29: whatever toggleInterface, toggleAllInterfaces and fetchData have
\* done, selectedInterfaces has no duplicates and holds only device ids of
\* currently active interfaces, and the select-all control is shown checked
\* exactly when every active interface is selected.
C29_SelectionOfActive ==
  LET active == ActiveDevices(interfaces)
      ids(s) == {s[k] : k \in 1..Len(s)}
  IN /\ Cardinality(ids(selectedInterfaces)) = Len(selectedInterfaces)
     /\ ids(selectedInterfaces) \subseteq ids(active)
     /\ (Len(selectedInterfaces) = totalActiveInterfaces)
          <=> (ids(active) \subseteq ids(selectedInterfaces))

\* C30: a failed get_firewall_rules never loses the list.  When the request
\* of a fetchRules call fails, rules is left as it was and error is set;
\* when the request of an updateRules call fails, rules, error and isLoading
\* are left as they were (after the updateRules of toggleRule the rows are
\* compared without isToggling, which toggleRule's finally block resets in
\* the same step); and every fetchRules call ends with isLoading false.
C30_FailedFetchKeepsList ==
  [][\A resp \in GetResponses :
       /\ (\/ FetchThenResponse(resp)
           \/ FetchPlainResponse(resp)
           \/ DeleteFetchResponse(resp))
          => /\ ~isLoading'
             /\ ~resp.ok => (rules' = rules /\ error' # Null)
       /\ (~resp.ok /\ UpdateResponse(resp))
          => UNCHANGED << rules, error, isLoading >>
       /\ (~resp.ok /\ \E s \in Slots : ToggleUpdateResponse(s, resp))
          => /\ UNCHANGED << error, isLoading >>
             /\ Len(rules') = Len(rules)
             /\ \A i \in 1..Len(rules) :
                  /\ rules'[i].uuid = rules[i].uuid
                  /\ rules'[i].enabled = rules[i].enabled]_vars

\* C30 witness: every fetchRules call has ended, one of them in a failure,
\* and the page still holds the rows it had.
C30_Witness ==
  /\ mounted
  /\ fetchThen + fetchPlain = 0
  /\ dl.pc # "fetch"
  /\ error # Null
  /\ ~isLoading
  /\ Len(rules) > 0

====
